---- MODULE Spec2Model ----
(***************************************************************************)
(* A model of the photo-selector proof of concept: the image enumerator    *)
(* (utils.ts), the JinaClipSearch class (JinaClipSearch.ts) and the        *)
(* MobileNetScorer class.  Embedding vectors are fixed-point: a component  *)
(* is held in tenths, so a dot product and a threshold are in hundredths   *)
(* (1.0 is 100, the default threshold 0.3 is 30).                          *)
(***************************************************************************)
EXTENDS Integers, Sequences, FiniteSets, TLC

VARIABLES
    \* ---- JinaClipSearch instance (JinaClipSearch.ts 24-27)
    model,            \* 0 is null, k > 0 is the model loaded by initialize call k
    processor,        \* 0 is null, k > 0 is the processor loaded by call k
    isInitialized,
    initPc,           \* position of each initialize() call
    initError,        \* the error each initialize() call rejected with
    \* ---- one search() call at a time on that instance
    searchPc,         \* position of the search() call
    config,           \* the SearchConfig after destructuring (line 158)
    folder,           \* the directory the call enumerated
    imagePaths,       \* what getImageFiles returned to it
    imageEmbeddings,  \* what getImageEmbeddings returned to it
    textEmbedding,    \* what getTextEmbedding returned to it
    response,         \* the SearchResponse it returned, or NoResponse
    searchError,      \* the error it rejected with, or NoError
    called,           \* the method that call entered by
    \* ---- a direct getImageFiles() call
    filesDir,         \* the directory it was given
    filesResult,      \* what it returned or threw
    \* ---- MobileNetScorer instance (lines 12-16 of the scorer)
    session,          \* 0 is null, k > 0 is the session created by initialize call k
    labels,
    labelEmbeddings,  \* the Map: a label's vector, NoVector where it has no entry
    scorerInitialized,    \* the scorer's isInitialized
    getTextEmbeddingFn,   \* 0 is null, k > 0 is the function call k passed
    scorerPc,         \* position of each initialize() call on the scorer
    scorerIndex,      \* the loop variable i of each call's precompute pass
    scorerLabel,      \* the label each call's pending embedding is for
    precomputeRuns,   \* precompute passes started on the instance
    \* ---- one getTopLabels() call at a time on the scorer
    topPc,            \* position of the call
    topK,
    topOutcome,       \* what preprocessing and inference gave the call
    topLogits,        \* the model output, when there is one
    topLabels,        \* the list the call returned
    topError,         \* the error the call threw, or NoError
    \* ---- one computeSemanticScore() call at a time on the scorer
    semPc,            \* position of the call
    semLabels,        \* the imageLabels it was given
    semQuery,         \* the queryEmbedding it was given
    semScore,         \* the number it returned
    \* ---- one search() call at a time with label fusion
    fusedPc,          \* position of the call
    fusedConfig,      \* its SearchConfig, defaults filled in
    fusedPaths,       \* the images it enumerated
    fusedEmbeddings,  \* their embeddings
    fusedQuery,       \* the query embedding
    fusedLabels,      \* the labels predicted for each image
    fusedResponse,    \* the SearchResponse it returned, or NoResponse
    fusedError        \* the error it rejected with, or NoError

jinaVars == <<model, processor, isInitialized, initPc, initError, searchPc,
              config, folder, imagePaths, imageEmbeddings, textEmbedding,
              response, searchError, called>>
filesVars == <<filesDir, filesResult>>
semVars == <<semPc, semLabels, semQuery, semScore>>
scorerVars == <<session, labels, labelEmbeddings, scorerInitialized,
                getTextEmbeddingFn, scorerPc, scorerIndex, scorerLabel,
                precomputeRuns, topPc, topK, topOutcome, topLogits, topLabels,
                topError, semVars>>
fusionVars == <<fusedPc, fusedConfig, fusedPaths, fusedEmbeddings, fusedQuery,
                fusedLabels, fusedResponse, fusedError>>
vars == <<jinaVars, filesVars, scorerVars, fusionVars>>

\* ------------------------------------------------------------------ bounds

\* initialize() calls made on one JinaClipSearch instance
MaxInitCalls == 2
\* entries in a directory listing handed to getImageFiles directly
MaxEntries == 3
\* initialize() calls made on one MobileNetScorer instance
MaxScorerInitCalls == 2
\* labels in a list handed to computeSemanticScore
MaxPredicted == 2

\* ----------------------------------------------------------------- helpers

Min(a, b) == IF a < b THEN a ELSE b
Max(a, b) == IF a > b THEN a ELSE b

Range(s) == {s[i] : i \in 1..Len(s)}

\* Array.prototype.slice(0, end): a negative end counts from the back
Slice0(s, end) ==
    LET e == IF end < 0 THEN Max(Len(s) + end, 0) ELSE Min(end, Len(s))
    IN  SubSeq(s, 1, e)

\* ------------------------------------------------- utils.ts: isImageFile

UpperCase == <<"A","B","C","D","E","F","G","H","I","J","K","L","M",
               "N","O","P","Q","R","S","T","U","V","W","X","Y","Z">>
LowerCase == <<"a","b","c","d","e","f","g","h","i","j","k","l","m",
               "n","o","p","q","r","s","t","u","v","w","x","y","z">>

\* String.prototype.toLowerCase, one character
toLowerChar(c) ==
    IF \E i \in 1..26 : UpperCase[i] = c
    THEN LowerCase[CHOOSE i \in 1..26 : UpperCase[i] = c]
    ELSE c

toLowerCase(s) == [i \in 1..Len(s) |-> toLowerChar(s[i])]

\* path.extname of a directory entry name (a name holds no separator):
\* from the last dot to the end, and empty when there is no dot, when the
\* last dot is the first character, or when the name is "..".
extname(s) ==
    LET dots == {i \in 1..Len(s) : s[i] = "."}
        startDot == IF dots = {} THEN 0
                    ELSE CHOOSE i \in dots : \A j \in dots : j <= i
        preDotState == IF startDot <= 1 THEN 0
                       ELSE IF s[1] = "." THEN 1 ELSE -1
    IN  IF \/ startDot = 0
           \/ preDotState = 0
           \/ (preDotState = 1 /\ startDot = Len(s) /\ startDot = 2)
        THEN <<>>
        ELSE SubSeq(s, startDot, Len(s))

SUPPORTED_IMAGE_FORMATS ==
    { <<".","j","p","g">>, <<".","j","p","e","g">>, <<".","p","n","g">>,
      <<".","b","m","p">>, <<".","w","e","b","p">>, <<".","g","i","f">> }

isImageFileCaseSensitive(filename) == extname(filename) \in SUPPORTED_IMAGE_FORMATS
isImageFile(filename) == toLowerCase(extname(filename)) \in SUPPORTED_IMAGE_FORMATS

\* ----------------------------------------------- utils.ts: getImageFiles

\* A directory as the file system presents it: whether the path exists, the
\* error readdir raises on an existing path ("none" when it lists), and the
\* entries in listing order, each with what stat (which follows links) says
\* of it: "file", "dir", or the errno it raises ("ENOENT" for a dangling
\* link or an entry removed since the listing, "EACCES").
ErrnoException(code, syscall) ==
    [kind |-> "ErrnoException", code |-> code, syscall |-> syscall]

DirectoryNotFound(directory) ==
    [kind |-> "Error", message |-> <<"Directory not found: ", directory>>]

join(directory, file) == <<directory, file>>
basename(path) == path[2]

\* readdir(directory)
readdir(d) ==
    IF ~d.exists THEN [ok |-> FALSE, error |-> ErrnoException("ENOENT", "scandir")]
    ELSE IF d.readdirError # "none"
         THEN [ok |-> FALSE, error |-> ErrnoException(d.readdirError, "scandir")]
         ELSE [ok |-> TRUE, files |-> d.entries]

\* the body of the try block from the listing on: the loop over the files
RECURSIVE scanFiles(_, _, _, _)
scanFiles(directory, files, i, acc) ==
    IF i > Len(files) THEN [ok |-> TRUE, paths |-> acc]
    ELSE LET file == files[i] IN
         IF file.stat \notin {"file", "dir"}
         THEN [ok |-> FALSE, error |-> ErrnoException(file.stat, "stat")]
         ELSE scanFiles(directory, files, i + 1,
                        IF file.stat = "file" /\ isImageFile(file.name)
                        THEN Append(acc, join(directory, file.name))
                        ELSE acc)

\* the catch block: ENOENT becomes 'Directory not found', the rest is rethrown
catchEnumeration(directory, error) ==
    IF error.code = "ENOENT" THEN DirectoryNotFound(directory) ELSE error

getImageFiles(d) ==
    LET listed == readdir(d)
        tried == IF listed.ok THEN scanFiles(d.path, listed.files, 1, <<>>)
                 ELSE listed
    IN  IF tried.ok THEN tried
        ELSE [ok |-> FALSE, error |-> catchEnumeration(d.path, tried.error)]

\* ------------------------------------- JinaClipSearch.ts: the search data

\* an optional config field: <<>> when the caller left it out
Undefined == <<>>
Given(v) == <<v>>
OrDefault(opt, default) == IF opt = Undefined THEN default ELSE opt[1]

\* threshold = 0.3 and maxResults = 100 of the destructuring
DefaultThreshold == 30
DefaultMaxResults == 100

\* L2-normalised embedding vectors, components in tenths
Vectors == { <<10, 0>>, <<6, 8>>, <<-10, 0>> }
\* the query embeddings drawn
TextVectors == { <<10, 0>>, <<6, 8>> }

Thresholds == {Undefined, Given(60), Given(-100), Given(100)}
MaxResultsValues == {Undefined, Given(-1), Given(0), Given(1), Given(2)}
Queries == {"dogs"}

File(name) == [name |-> name, stat |-> "file"]
Entry(name, stat) == [name |-> name, stat |-> stat]
Dir(path, exists, readdirError, entries) ==
    [path |-> path, exists |-> exists, readdirError |-> readdirError,
     entries |-> entries]

a_jpg == <<"a", ".", "j", "p", "g">>
b_PNG == <<"b", ".", "P", "N", "G">>
c_gif == <<"c", ".", "g", "i", "f">>
notes_txt == <<"n", ".", "t", "x", "t">>
sub_jpg == <<"s", ".", "j", "p", "g">>
link_jpg == <<"l", ".", "j", "p", "g">>

\* the directories a search is pointed at
Folders ==
    { Dir("missing", FALSE, "none", <<>>),
      Dir("locked", TRUE, "EACCES", <<>>),
      Dir("empty", TRUE, "none", <<>>),
      Dir("docs", TRUE, "none", <<File(notes_txt), Entry(sub_jpg, "dir")>>),
      Dir("one", TRUE, "none", <<File(a_jpg)>>),
      Dir("two", TRUE, "none", <<File(a_jpg), Entry(sub_jpg, "dir"), File(b_PNG)>>),
      Dir("three", TRUE, "none",
          <<File(a_jpg), File(notes_txt), File(b_PNG), File(c_gif)>>),
      Dir("dangling", TRUE, "none", <<File(a_jpg), Entry(link_jpg, "ENOENT")>>),
      Dir("denied", TRUE, "none", <<File(a_jpg), Entry(b_PNG, "EACCES")>>) }

FolderAt(path) == CHOOSE d \in Folders : d.path = path

NoResponse == [returned |-> FALSE]
NoError == [kind |-> "none"]
NoConfig == [imageFolder |-> "", query |-> "", threshold |-> 0, maxResults |-> 0]
NoFolder == Dir("", FALSE, "none", <<>>)
NoVector == <<>>
NoFusedConfig == [imageFolder |-> "", query |-> "", threshold |-> 0, maxResults |-> 0,
                  enableAuxScorer |-> FALSE, fusionWeight |-> 0]

InitializationFailedError ==
    [kind |-> "Error", message |-> <<"Model initialization failed">>]
NotInitializedError ==
    [kind |-> "Error", message |-> <<"Model not initialized. Call initialize() first.">>]
ImageReadError == [kind |-> "Error", message |-> <<"image read failed">>]
InferenceError == [kind |-> "Error", message |-> <<"inference failed">>]

\* ------------------------------------------ JinaClipSearch.ts: pure parts

\* ensureInitialized does not throw
ensureProcessorOnly == processor # 0
ensureInitialized == isInitialized /\ model # 0 /\ processor # 0

\* dot (lines 92-96)
RECURSIVE dotFrom(_, _, _)
dotFrom(a, b, i) == IF i > Len(a) THEN 0 ELSE a[i] * b[i] + dotFrom(a, b, i + 1)
dot(a, b) == dotFrom(a, b, 1)

\* the test of line 193
passesStrictly(similarity, threshold) == similarity > threshold
passesThreshold(similarity, threshold) == similarity >= threshold

\* the loop of lines 190-201: the results in enumeration order, rank 0
RECURSIVE scoreFrom(_, _, _, _, _)
scoreFrom(paths, embeddings, queryVector, threshold, i) ==
    IF i > Len(paths) THEN <<>>
    ELSE LET similarity == dot(embeddings[i], queryVector)
             rest == scoreFrom(paths, embeddings, queryVector, threshold, i + 1)
         IN  IF passesThreshold(similarity, threshold)
             THEN <<[imagePath |-> paths[i], similarity |-> similarity,
                     fileName |-> basename(paths[i]), rank |-> 0]>> \o rest
             ELSE rest

\* the comparator of line 203
compareMirrored(a, b) == a.similarity - b.similarity
compareResults(a, b) == b.similarity - a.similarity

\* Array.prototype.sort: a stable sort (ECMAScript 2019, Node 18+): an element
\* is placed after every element the comparator does not order after it
insertUnstable(sorted, x) ==
    LET after == {i \in 1..Len(sorted) : compareResults(sorted[i], x) >= 0}
        k == IF after = {} THEN Len(sorted) + 1
             ELSE CHOOSE i \in after : \A j \in after : i <= j
    IN  SubSeq(sorted, 1, k - 1) \o <<x>> \o SubSeq(sorted, k, Len(sorted))
insertStable(sorted, x) ==
    LET after == {i \in 1..Len(sorted) : compareResults(sorted[i], x) > 0}
        k == IF after = {} THEN Len(sorted) + 1
             ELSE CHOOSE i \in after : \A j \in after : i <= j
    IN  SubSeq(sorted, 1, k - 1) \o <<x>> \o SubSeq(sorted, k, Len(sorted))

RECURSIVE sortFrom(_, _, _)
sortFrom(s, i, sorted) ==
    IF i > Len(s) THEN sorted ELSE sortFrom(s, i + 1, insertStable(sorted, s[i]))
sort(s) == sortFrom(s, 1, <<>>)

\* results.slice(0, maxResults) of line 204
limitResults(results, maxResults) == Slice0(results, maxResults)

\* forEach of line 205
assignRanks(limited) == [i \in 1..Len(limited) |-> [limited[i] EXCEPT !.rank = i]]

\* stats of lines 209-214 (processingTimeMs is wall-clock time, left out)
statsOfMatches(paths, matched, limitedResults, query) ==
    [totalImages |-> Len(paths), matchingImages |-> Len(matched), query |-> query]
searchStats(paths, matched, limitedResults, query) ==
    [totalImages |-> Len(paths), matchingImages |-> Len(limitedResults),
     query |-> query]

\* lines 190-215 given the embeddings
buildResponse(cfg, paths, embeddings, queryVector) ==
    LET results == scoreFrom(paths, embeddings, queryVector, cfg.threshold, 1)
        limitedResults == assignRanks(limitResults(sort(results), cfg.maxResults))
    IN  [returned |-> TRUE,
         results |-> limitedResults,
         stats |-> searchStats(paths, results, limitedResults, cfg.query)]

\* lines 164-174
emptyResponse(cfg) ==
    [returned |-> TRUE,
     results |-> <<>>,
     stats |-> [totalImages |-> 0, matchingImages |-> 0, query |-> cfg.query]]

\* --------------------------------------- JinaClipSearch.ts: initialize()

InitCalls == 1..MaxInitCalls

\* lines 29-43: a call that sees isInitialized returns at once, another one
\* starts loading the processor.  Calls are numbered in the order made.
InitializeCall(c) ==
    /\ initPc[c] = "idle"
    /\ \A b \in InitCalls : b < c => initPc[b] # "idle"
    /\ initPc' = [initPc EXCEPT ![c] = IF isInitialized THEN "alreadyInitialized"
                                       ELSE "awaitProcessor"]
    /\ UNCHANGED <<model, processor, isInitialized, initError, searchPc, config, folder,
                   imagePaths, imageEmbeddings, textEmbedding, response,
                   searchError, called>>
    /\ UNCHANGED <<filesVars, scorerVars, fusionVars>>

\* line 46 resolves
ProcessorLoaded(c) ==
    /\ initPc[c] = "awaitProcessor"
    /\ processor' = c
    /\ initPc' = [initPc EXCEPT ![c] = "awaitModel"]
    /\ UNCHANGED <<model, isInitialized, initError, searchPc, config, folder,
                   imagePaths, imageEmbeddings, textEmbedding, response,
                   searchError, called>>
    /\ UNCHANGED <<filesVars, scorerVars, fusionVars>>

\* lines 47-55: the model resolves, the call sets isInitialized and returns
ModelLoaded(c) ==
    /\ initPc[c] = "awaitModel"
    /\ model' = c
    /\ isInitialized' = TRUE
    /\ initPc' = [initPc EXCEPT ![c] = "resolved"]
    /\ UNCHANGED <<processor, initError, searchPc, config, folder,
                   imagePaths, imageEmbeddings, textEmbedding, response,
                   searchError, called>>
    /\ UNCHANGED <<filesVars, scorerVars, fusionVars>>

\* lines 56-59: either load rejects; the call throws 'Model initialization
\* failed' and assigns nothing more
LoadFailed(c) ==
    /\ initPc[c] \in {"awaitProcessor", "awaitModel"}
    /\ initPc' = [initPc EXCEPT ![c] = "rejected"]
    /\ initError' = [initError EXCEPT ![c] = InitializationFailedError]
    /\ UNCHANGED <<model, processor, isInitialized, searchPc, config, folder,
                   imagePaths, imageEmbeddings, textEmbedding, response,
                   searchError, called>>
    /\ UNCHANGED <<filesVars, scorerVars, fusionVars>>

\* ------------------------------------------- JinaClipSearch.ts: search()

SearchInputs ==
    [imageFolder : {d.path : d \in Folders}, query : Queries,
     threshold : Thresholds, maxResults : MaxResultsValues]

destructure(input) ==
    [imageFolder |-> input.imageFolder, query |-> input.query,
     threshold |-> OrDefault(input.threshold, DefaultThreshold),
     maxResults |-> OrDefault(input.maxResults, DefaultMaxResults)]

\* lines 155-162 up to the await of getImageFiles
BeginSearch(input) ==
    /\ searchPc = "idle"
    /\ IF ensureInitialized
       THEN /\ searchPc' = "getImageFiles"
            /\ config' = destructure(input)
            /\ searchError' = NoError
       ELSE /\ searchPc' = "failed"
            /\ config' = NoConfig
            /\ searchError' = NotInitializedError
    /\ UNCHANGED <<model, processor, isInitialized, initPc, initError, folder,
                   imagePaths, imageEmbeddings, textEmbedding, response>>
    /\ UNCHANGED <<filesVars, scorerVars, fusionVars>>

SearchCall ==
    /\ searchPc = "idle"
    /\ \E input \in SearchInputs : BeginSearch(input)
    /\ called' = "search"

\* lines 162-174: getImageFiles settles
SearchEnumerate ==
    /\ searchPc = "getImageFiles"
    /\ LET d == FolderAt(config.imageFolder)
           got == getImageFiles(d)
       IN  /\ folder' = d
           /\ IF ~got.ok
              THEN /\ searchPc' = "failed"
                   /\ searchError' = got.error
                   /\ UNCHANGED <<imagePaths, response>>
              ELSE IF Len(got.paths) = 0
              THEN /\ searchPc' = "returned"
                   /\ response' = emptyResponse(config)
                   /\ UNCHANGED <<imagePaths, searchError>>
              ELSE /\ searchPc' = "readImages"
                   /\ imagePaths' = got.paths
                   /\ UNCHANGED <<response, searchError>>
    /\ UNCHANGED <<model, processor, isInitialized, initPc, initError, config,
                   imageEmbeddings, textEmbedding, called>>
    /\ UNCHANGED <<filesVars, scorerVars, fusionVars>>

\* line 181: every RawImage.read resolves, or one rejects
SearchReadImages ==
    /\ searchPc = "readImages"
    /\ \/ /\ searchPc' = "getImageEmbeddings"
          /\ UNCHANGED searchError
       \/ /\ searchPc' = "failed"
          /\ searchError' = ImageReadError
    /\ UNCHANGED <<model, processor, isInitialized, initPc, initError, config,
                   folder,
                   imagePaths, imageEmbeddings, textEmbedding, response, called>>
    /\ UNCHANGED <<filesVars, scorerVars, fusionVars>>

\* line 184, getImageEmbeddings (98-121): one normalised vector an image, or
\* the processor, the model or the output shape fails
SearchEmbedImages ==
    /\ searchPc = "getImageEmbeddings"
    /\ ensureInitialized
    /\ \/ \E embeddings \in [1..Len(imagePaths) -> Vectors] :
            /\ imageEmbeddings' = embeddings
            /\ searchPc' = "getTextEmbedding"
            /\ UNCHANGED searchError
       \/ /\ searchPc' = "failed"
          /\ searchError' = InferenceError
          /\ UNCHANGED imageEmbeddings
    /\ UNCHANGED <<model, processor, isInitialized, initPc, initError, config,
                   folder,
                   imagePaths, textEmbedding, response, called>>
    /\ UNCHANGED <<filesVars, scorerVars, fusionVars>>

\* line 187, getTextEmbedding (123-145), then lines 190-215 without a pause
SearchEmbedTextAndRank ==
    /\ searchPc = "getTextEmbedding"
    /\ ensureInitialized
    /\ \/ \E embedding \in TextVectors :
            /\ textEmbedding' = embedding
            /\ response' = buildResponse(config, imagePaths, imageEmbeddings,
                                         embedding)
            /\ searchPc' = "returned"
            /\ UNCHANGED searchError
       \/ /\ searchPc' = "failed"
          /\ searchError' = InferenceError
          /\ UNCHANGED <<textEmbedding, response>>
    /\ UNCHANGED <<model, processor, isInitialized, initPc, initError, config,
                   folder,
                   imagePaths, imageEmbeddings, called>>
    /\ UNCHANGED <<filesVars, scorerVars, fusionVars>>

\* searchMultiple (218-229): the guard, then search() for the first query
\* with the default maxResults; the later queries are further search() calls
SearchMultipleCall ==
    /\ searchPc = "idle"
    /\ \E d \in Folders, query \in Queries, threshold \in Thresholds :
          BeginSearch([imageFolder |-> d.path, query |-> query,
                       threshold |-> threshold, maxResults |-> Undefined])
    /\ called' = "searchMultiple"

\* selfCheck (231-249): the guard, the enumeration, and for a folder with an
\* image the embedding calls, which succeed or fail; it writes nothing on
\* the instance
SelfCheckCall ==
    /\ searchPc = "idle"
    /\ called' = "selfCheck"
    /\ IF ~ensureInitialized
       THEN /\ searchPc' = "failed"
            /\ searchError' = NotInitializedError
            /\ UNCHANGED folder
       ELSE \E d \in Folders :
              LET got == getImageFiles(d) IN
              /\ folder' = d
              /\ IF ~got.ok
                 THEN /\ searchPc' = "failed"
                      /\ searchError' = got.error
                 ELSE \/ /\ searchPc' = "selfChecked"
                         /\ UNCHANGED searchError
                      \/ /\ Len(got.paths) > 0
                         /\ searchPc' = "failed"
                         /\ searchError' = InferenceError
    /\ UNCHANGED <<model, processor, isInitialized, initPc, initError, config,
                   imagePaths, imageEmbeddings, textEmbedding, response>>
    /\ UNCHANGED <<filesVars, scorerVars, fusionVars>>

\* the caller's await settles (index.ts 23-26 and its catch, 36-47): the
\* call is over and the instance is free for the next one
CallSettles ==
    /\ searchPc \in {"returned", "failed", "selfChecked"}
    /\ searchPc' = "idle"
    /\ config' = NoConfig
    /\ folder' = NoFolder
    /\ imagePaths' = <<>>
    /\ imageEmbeddings' = <<>>
    /\ textEmbedding' = NoVector
    /\ response' = NoResponse
    /\ searchError' = NoError
    /\ called' = "none"
    /\ UNCHANGED <<model, processor, isInitialized, initPc, initError>>
    /\ UNCHANGED <<filesVars, scorerVars, fusionVars>>

\* ------------------------------------------- a direct getImageFiles call

\* the names a listing is drawn from: the six formats in mixed case, a dot
\* file, a name whose image suffix is not last, a name with no dot, and a
\* name that starts with two dots
ListingNames ==
    { <<"a", ".", "j", "p", "g">>,
      <<"b", ".", "J", "P", "E", "G">>,
      <<"c", ".", "P", "n", "g">>,
      <<"d", ".", "b", "m", "p">>,
      <<"e", ".", "w", "e", "b", "p">>,
      <<"f", ".", "G", "I", "F">>,
      <<".", "j", "p", "g">>,
      <<"g", ".", "j", "p", "g", ".", "t", "x", "t">>,
      <<"h", "j", "p", "g">>,
      <<".", ".", "p", "n", "g">> }

ListingEntries == [name : ListingNames, stat : {"file", "dir"}]

\* readdir lists a name once
Listings ==
    UNION { { l \in [1..n -> ListingEntries] :
                \A i, j \in 1..n : i # j => l[i].name # l[j].name }
            : n \in 0..MaxEntries }

NoResult == [ok |-> FALSE, error |-> NoError]

\* getImageFiles(directory) on a directory that lists
FilesCall ==
    /\ filesDir = NoFolder
    /\ \E entries \in Listings :
          /\ filesDir' = Dir("images", TRUE, "none", entries)
          /\ filesResult' = getImageFiles(filesDir')
    /\ UNCHANGED <<jinaVars, scorerVars, fusionVars>>

\* the caller has the result; the next call is independent of it
FilesSettles ==
    /\ filesDir # NoFolder
    /\ filesDir' = NoFolder
    /\ filesResult' = NoResult
    /\ UNCHANGED <<jinaVars, scorerVars, fusionVars>>

\* ------------------------------------------------------ MobileNetScorer

ScorerCalls == 1..MaxScorerInitCalls

\* the content of models/imagenet_labels.json (1000 labels in the program)
ImageNetLabels == <<"tabby", "beagle">>
\* the classes the ONNX model scores: one more than the file has labels for
OutputSize == Len(ImageNetLabels) + 1
LogitValues == {0, 1, 2}
TopKValues == {Undefined, Given(0), Given(1), Given(2), Given(3)}
\* topK = 20 of getTopLabels
DefaultTopK == 20

LabelSet == Range(ImageNetLabels)

ScorerNotInitializedError ==
    [kind |-> "Error", message |-> <<"MobileNet not initialized. Call initialize() first.">>]

\* lines 21-35: a call that sees isInitialized returns at once, another one
\* stores the embedding function and awaits the session
ScorerInitializeCall(c) ==
    /\ scorerPc[c] = "idle"
    /\ \A b \in ScorerCalls : b < c => scorerPc[b] # "idle"
    /\ IF scorerInitialized
       THEN /\ scorerPc' = [scorerPc EXCEPT ![c] = "alreadyInitialized"]
            /\ UNCHANGED getTextEmbeddingFn
       ELSE /\ scorerPc' = [scorerPc EXCEPT ![c] = "awaitSession"]
            /\ getTextEmbeddingFn' = c
    /\ UNCHANGED <<session, labels, labelEmbeddings, scorerInitialized,
                   scorerIndex, scorerLabel, precomputeRuns,
                   topPc, topK, topOutcome, topLogits, topLabels, topError>>
    /\ UNCHANGED <<jinaVars, filesVars, semVars, fusionVars>>

\* the pass of lines 62-75 from index i on, up to its next await: the label
\* at i is read and its embedding awaited, or the loop is over
precomputeFrom(c, i, currentLabels) ==
    IF i <= Len(currentLabels)
    THEN /\ scorerPc' = [scorerPc EXCEPT ![c] = "awaitEmbedding"]
         /\ scorerIndex' = [scorerIndex EXCEPT ![c] = i]
         /\ scorerLabel' = [scorerLabel EXCEPT ![c] = currentLabels[i]]
    ELSE /\ scorerPc' = [scorerPc EXCEPT ![c] = "awaitPrecompute"]
         /\ scorerIndex' = [scorerIndex EXCEPT ![c] = i]
         /\ scorerLabel' = [scorerLabel EXCEPT ![c] = ""]

\* lines 35-46: the session resolves, the labels file is read and parsed,
\* and the precompute pass starts; or the file cannot be read or parsed
SessionCreated(c) ==
    /\ scorerPc[c] = "awaitSession"
    /\ session' = c
    /\ \/ /\ labels' = ImageNetLabels
          /\ precomputeRuns' = precomputeRuns + 1
          /\ precomputeFrom(c, 1, ImageNetLabels)
       \/ /\ scorerPc' = [scorerPc EXCEPT ![c] = "rejected"]
          /\ UNCHANGED <<labels, precomputeRuns, scorerIndex, scorerLabel>>
    /\ UNCHANGED <<labelEmbeddings, scorerInitialized, getTextEmbeddingFn,
                   topPc, topK, topOutcome, topLogits, topLabels, topError>>
    /\ UNCHANGED <<jinaVars, filesVars, semVars, fusionVars>>

\* line 35 rejects: 'MobileNet initialization failed'
SessionFailed(c) ==
    /\ scorerPc[c] = "awaitSession"
    /\ scorerPc' = [scorerPc EXCEPT ![c] = "rejected"]
    /\ UNCHANGED <<session, labels, labelEmbeddings, scorerInitialized,
                   getTextEmbeddingFn, scorerIndex, scorerLabel, precomputeRuns,
                   topPc, topK, topOutcome, topLogits, topLabels, topError>>
    /\ UNCHANGED <<jinaVars, filesVars, semVars, fusionVars>>

\* lines 65-66: the embedding of the awaited label resolves and is stored
\* under it, then the loop goes on
LabelEmbedded(c) ==
    /\ scorerPc[c] = "awaitEmbedding"
    /\ \E embedding \in Vectors :
          labelEmbeddings' = [labelEmbeddings EXCEPT ![scorerLabel[c]] = embedding]
    /\ precomputeFrom(c, scorerIndex[c] + 1, labels)
    /\ UNCHANGED <<session, labels, scorerInitialized, getTextEmbeddingFn,
                   precomputeRuns,
                   topPc, topK, topOutcome, topLogits, topLabels, topError>>
    /\ UNCHANGED <<jinaVars, filesVars, semVars, fusionVars>>

\* lines 72-74: the embedding rejects, the label is skipped with a warning
LabelEmbeddingFailed(c) ==
    /\ scorerPc[c] = "awaitEmbedding"
    /\ precomputeFrom(c, scorerIndex[c] + 1, labels)
    /\ UNCHANGED <<session, labels, labelEmbeddings, scorerInitialized,
                   getTextEmbeddingFn, precomputeRuns,
                   topPc, topK, topOutcome, topLogits, topLabels, topError>>
    /\ UNCHANGED <<jinaVars, filesVars, semVars, fusionVars>>

\* lines 46-48: the pass has returned, the call sets isInitialized
PrecomputeDone(c) ==
    /\ scorerPc[c] = "awaitPrecompute"
    /\ scorerInitialized' = TRUE
    /\ scorerPc' = [scorerPc EXCEPT ![c] = "resolved"]
    /\ UNCHANGED <<session, labels, labelEmbeddings, getTextEmbeddingFn,
                   scorerIndex, scorerLabel, precomputeRuns,
                   topPc, topK, topOutcome, topLogits, topLabels, topError>>
    /\ UNCHANGED <<jinaVars, filesVars, semVars, fusionVars>>

\* ---- getTopLabels (113-148)

\* the comparator of line 138
compareLogits(a, b) == b.val - a.val

\* Array.prototype.sort of line 138, stable
insertLogit(sorted, x) ==
    LET after == {i \in 1..Len(sorted) : compareLogits(sorted[i], x) > 0}
        k == IF after = {} THEN Len(sorted) + 1
             ELSE CHOOSE i \in after : \A j \in after : i <= j
    IN  SubSeq(sorted, 1, k - 1) \o <<x>> \o SubSeq(sorted, k, Len(sorted))

RECURSIVE sortLogitsFrom(_, _, _)
sortLogitsFrom(s, i, sorted) ==
    IF i > Len(s) THEN sorted
    ELSE sortLogitsFrom(s, i + 1, insertLogit(sorted, s[i]))

\* this.labels[i] || 'unknown', i being 0-based in the program
labelAt(currentLabels, i) ==
    IF i <= Len(currentLabels) THEN currentLabels[i] ELSE "unknown"

\* lines 136-143
topLabelsOf(logits, k, currentLabels) ==
    LET pairs == [i \in 1..Len(logits) |-> [val |-> logits[i], idx |-> i]]
        indices == Slice0(sortLogitsFrom(pairs, 1, <<>>), k)
    IN  [j \in 1..Len(indices) |-> labelAt(currentLabels, indices[j].idx)]

\* the catch of lines 144-147
failureRethrown == [ok |-> FALSE, labels |-> <<>>, error |-> InferenceError]
failureDegraded == [ok |-> TRUE, labels |-> <<>>, error |-> NoError]

\* lines 113-117: the guard, then the await of the preprocessing.  The
\* scorer's caller makes one call at a time.
TopLabelsCall ==
    /\ topPc = "idle"
    /\ semPc = "idle"
    /\ \E k \in TopKValues :
          IF ~scorerInitialized \/ session = 0
          THEN /\ topPc' = "thrown"
               /\ topError' = ScorerNotInitializedError
               /\ UNCHANGED topK
          ELSE /\ topPc' = "awaitInference"
               /\ topK' = OrDefault(k, DefaultTopK)
               /\ UNCHANGED topError
    /\ UNCHANGED <<session, labels, labelEmbeddings, scorerInitialized,
                   getTextEmbeddingFn, scorerPc, scorerIndex, scorerLabel,
                   precomputeRuns, topOutcome, topLogits, topLabels>>
    /\ UNCHANGED <<jinaVars, filesVars, semVars, fusionVars>>

\* lines 118-147: preprocessing or inference fails and is caught, the
\* output is missing, or the logits are ranked
TopLabelsSettles ==
    /\ topPc = "awaitInference"
    /\ \/ \E failure \in {"preprocessFailed", "inferenceFailed"} :
            /\ topOutcome' = failure
            /\ topLogits' = <<>>
            /\ topPc' = IF failureDegraded.ok THEN "returned" ELSE "thrown"
            /\ topLabels' = failureDegraded.labels
            /\ topError' = failureDegraded.error
       \/ /\ topOutcome' = "outputMissing"
          /\ topLogits' = <<>>
          /\ topPc' = "returned"
          /\ topLabels' = <<>>
          /\ UNCHANGED topError
       \/ \E logits \in [1..OutputSize -> LogitValues] :
            /\ topOutcome' = "logits"
            /\ topLogits' = logits
            /\ topPc' = "returned"
            /\ topLabels' = topLabelsOf(logits, topK, labels)
            /\ UNCHANGED topError
    /\ UNCHANGED <<session, labels, labelEmbeddings, scorerInitialized,
                   getTextEmbeddingFn, scorerPc, scorerIndex, scorerLabel,
                   precomputeRuns, topK>>
    /\ UNCHANGED <<jinaVars, filesVars, semVars, fusionVars>>

\* the caller has the list or the error; the next call is independent of it
TopLabelsCallerResumes ==
    /\ topPc \in {"returned", "thrown"}
    /\ topPc' = "idle"
    /\ topK' = 0
    /\ topOutcome' = "none"
    /\ topLogits' = <<>>
    /\ topLabels' = <<>>
    /\ topError' = NoError
    /\ UNCHANGED <<session, labels, labelEmbeddings, scorerInitialized,
                   getTextEmbeddingFn, scorerPc, scorerIndex, scorerLabel,
                   precomputeRuns>>
    /\ UNCHANGED <<jinaVars, filesVars, semVars, fusionVars>>

\* ---- computeSemanticScore (154-171)

\* labels predicted for one image: at most MaxPredicted of them, each a label
\* of the file or 'unknown', the name getTopLabels gives a class without one;
\* the indices getTopLabels maps are distinct, so no label comes twice
PredictedLabels == LabelSet \cup {"unknown"}
PredictedLists ==
    UNION { { l \in [1..n -> PredictedLabels] :
                \A i, j \in 1..n : i # j => l[i] # l[j] }
            : n \in 0..MaxPredicted }

\* this.labelEmbeddings.get(label): NoVector stands for undefined
labelEmbeddingsGet(label) ==
    IF label \in DOMAIN labelEmbeddings THEN labelEmbeddings[label] ELSE NoVector

\* dot (176-182): the loop runs over the first argument
scorerDotFromSecond(a, b) == dotFrom(a, b, 2)
scorerDot(a, b) == dotFrom(a, b, 1)

\* the loop of lines 161-167: a similarity for each label that has an entry
RECURSIVE similaritiesFrom(_, _, _)
similaritiesFrom(imageLabels, queryEmbedding, i) ==
    IF i > Len(imageLabels) THEN <<>>
    ELSE LET labelEmbedding == labelEmbeddingsGet(imageLabels[i])
             rest == similaritiesFrom(imageLabels, queryEmbedding, i + 1)
         IN  IF labelEmbedding # NoVector
             THEN <<scorerDot(queryEmbedding, labelEmbedding)>> \o rest
             ELSE rest

\* Math.max(...similarities) of a non-empty list
mathMax(s) == CHOOSE m \in Range(s) : \A x \in Range(s) : x <= m

computeSemanticScoreFirstMatch(imageLabels, queryEmbedding) ==
    LET similarities == similaritiesFrom(imageLabels, queryEmbedding, 1)
    IN  IF Len(imageLabels) = 0 THEN 0
        ELSE IF Len(similarities) > 0 THEN similarities[1] ELSE 0
computeSemanticScore(imageLabels, queryEmbedding) ==
    LET similarities == similaritiesFrom(imageLabels, queryEmbedding, 1)
    IN  IF Len(imageLabels) = 0 THEN 0
        ELSE IF Len(similarities) > 0 THEN mathMax(similarities) ELSE 0

\* a call of computeSemanticScore: it has no guard and does not suspend
SemanticScoreCall ==
    /\ semPc = "idle"
    /\ topPc = "idle"
    /\ \E imageLabels \in PredictedLists, queryEmbedding \in TextVectors :
          /\ semLabels' = imageLabels
          /\ semQuery' = queryEmbedding
          /\ semScore' = computeSemanticScore(imageLabels, queryEmbedding)
    /\ semPc' = "returned"
    /\ UNCHANGED <<session, labels, labelEmbeddings, scorerInitialized,
                   getTextEmbeddingFn, scorerPc, scorerIndex, scorerLabel,
                   precomputeRuns, topPc, topK, topOutcome, topLogits, topLabels,
                   topError>>
    /\ UNCHANGED <<jinaVars, filesVars, fusionVars>>

\* the caller has the score; the next call is independent of it
SemanticScoreCallerResumes ==
    /\ semPc = "returned"
    /\ semPc' = "idle"
    /\ semLabels' = <<>>
    /\ semQuery' = NoVector
    /\ semScore' = 0
    /\ UNCHANGED <<session, labels, labelEmbeddings, scorerInitialized,
                   getTextEmbeddingFn, scorerPc, scorerIndex, scorerLabel,
                   precomputeRuns, topPc, topK, topOutcome, topLogits, topLabels,
                   topError>>
    /\ UNCHANGED <<jinaVars, filesVars, fusionVars>>

\* --------------------------------------------- search() with label fusion

\* The JinaClipSearch of the variant with the auxiliary scorer: its
\* SearchConfig and SearchResult are declared in the types (lines 338-381 of
\* JinaClipSearch.ts), its caller is the main that sets enableAuxScorer.  A
\* fused score is held in thousandths: a weight in tenths times a score in
\* hundredths.

\* enableAuxScorer "(default: true)" and fusionWeight "(default: 0.3)"
DefaultEnableAuxScorer == TRUE
DefaultFusionWeight == 3

EnableValues == {Undefined, Given(TRUE), Given(FALSE)}
FusionWeights == {Undefined, Given(-5), Given(0), Given(10), Given(15)}
FusedThresholds == {Undefined, Given(-100)}
FusedFolders == {"missing", "empty", "one", "two"}
\* label lists getTopLabels returns for an image
FusedPredicted == { <<>>, <<"tabby">>, <<"unknown", "beagle">>, <<"tabby", "beagle">> }

FusedInputs ==
    [imageFolder : FusedFolders, query : Queries, threshold : FusedThresholds,
     maxResults : {Undefined}, enableAuxScorer : EnableValues,
     fusionWeight : FusionWeights]

destructureFused(input) ==
    [imageFolder |-> input.imageFolder, query |-> input.query,
     threshold |-> OrDefault(input.threshold, DefaultThreshold),
     maxResults |-> OrDefault(input.maxResults, DefaultMaxResults),
     enableAuxScorer |-> OrDefault(input.enableAuxScorer, DefaultEnableAuxScorer),
     fusionWeight |-> OrDefault(input.fusionWeight, DefaultFusionWeight)]

\* fusionWeight clamped to [0,1]
clampWeight(w) == Max(0, Min(10, w))

\* fused = (1 - fusionWeight) * visualScore + fusionWeight * secondaryScore
fuse(visualScore, secondaryScore, fusionWeight) ==
    (10 - clampWeight(fusionWeight)) * visualScore
        + clampWeight(fusionWeight) * secondaryScore

\* the scorer is loaded and the search asks for it
auxActive(cfg) == cfg.enableAuxScorer /\ scorerInitialized /\ session # 0

\* score(imageVector, queryVector, auxLabels, labelTable, fusionWeight) and
\* the result it is kept in, rank 0
fusedResult(cfg, path, imageVector, queryVector, auxLabels) ==
    LET clipScore == dot(imageVector, queryVector)
        auxScore == computeSemanticScore(auxLabels, queryVector)
    IN  IF auxActive(cfg)
        THEN [imagePath |-> path, fileName |-> basename(path), rank |-> 0,
              similarity |-> fuse(clipScore, auxScore, cfg.fusionWeight),
              clipScore |-> clipScore, auxScore |-> auxScore,
              predictedLabels |-> auxLabels]
        ELSE [imagePath |-> path, fileName |-> basename(path), rank |-> 0,
              similarity |-> 10 * clipScore,
              clipScore |-> clipScore, auxScore |-> 0,
              predictedLabels |-> <<>>]

\* the ranker's filter: fusedScore >= threshold
RECURSIVE fusedScoreFrom(_, _, _, _, _, _)
fusedScoreFrom(cfg, paths, embeddings, queryVector, predicted, i) ==
    IF i > Len(paths) THEN <<>>
    ELSE LET r == fusedResult(cfg, paths[i], embeddings[i], queryVector,
                              predicted[i])
             rest == fusedScoreFrom(cfg, paths, embeddings, queryVector,
                                    predicted, i + 1)
         IN  IF r.similarity >= 10 * cfg.threshold THEN <<r>> \o rest ELSE rest

\* filter, stable sort, truncation, ranks, stats
buildFusedResponse(cfg, paths, embeddings, queryVector, predicted) ==
    LET results == fusedScoreFrom(cfg, paths, embeddings, queryVector,
                                  predicted, 1)
        limitedResults == assignRanks(limitResults(sort(results), cfg.maxResults))
    IN  [returned |-> TRUE,
         results |-> limitedResults,
         stats |-> searchStats(paths, results, limitedResults, cfg.query)]

\* Ready: initialize(config.enableAuxScorer) has resolved, so a search that
\* enables the scorer runs on an instance that loaded it (main, 120 and 129)
fusedReady(enable) ==
    \/ scorerPc[1] = "resolved"
    \/ ~enable /\ scorerPc[1] = "idle"

\* Ready -> Searching: the images are enumerated
FusedSearchCall ==
    /\ fusedPc = "idle"
    /\ \E input \in FusedInputs :
          LET cfg == destructureFused(input)
              got == getImageFiles(FolderAt(cfg.imageFolder))
          IN  /\ fusedReady(cfg.enableAuxScorer)
              /\ fusedConfig' = cfg
              /\ IF ~got.ok
                 THEN /\ fusedPc' = "failed"
                      /\ fusedError' = got.error
                      /\ UNCHANGED <<fusedPaths, fusedResponse>>
                 ELSE IF Len(got.paths) = 0
                 THEN /\ fusedPc' = "returned"
                      /\ fusedResponse' = emptyResponse(cfg)
                      /\ UNCHANGED <<fusedPaths, fusedError>>
                 ELSE /\ fusedPc' = "embed"
                      /\ fusedPaths' = got.paths
                      /\ UNCHANGED <<fusedResponse, fusedError>>
    /\ UNCHANGED <<fusedEmbeddings, fusedQuery, fusedLabels>>
    /\ UNCHANGED <<jinaVars, filesVars, scorerVars>>

\* the embeddings of all images and of the query are obtained, or the
\* embedding provider fails
FusedSearchEmbed ==
    /\ fusedPc = "embed"
    /\ \/ \E embeddings \in [1..Len(fusedPaths) -> Vectors],
             queryVector \in TextVectors :
            /\ fusedEmbeddings' = embeddings
            /\ fusedQuery' = queryVector
            /\ fusedPc' = "score"
            /\ UNCHANGED fusedError
       \/ /\ fusedPc' = "failed"
          /\ fusedError' = InferenceError
          /\ UNCHANGED <<fusedEmbeddings, fusedQuery>>
    /\ UNCHANGED <<fusedConfig, fusedPaths, fusedLabels, fusedResponse>>
    /\ UNCHANGED <<jinaVars, filesVars, scorerVars>>

\* the labels of each image are predicted when the scorer is in use, then
\* the scores are fused and ranked: Searching -> Done
FusedSearchScore ==
    /\ fusedPc = "score"
    /\ \E predicted \in [1..Len(fusedPaths) -> FusedPredicted] :
          /\ auxActive(fusedConfig) \/ \A i \in 1..Len(fusedPaths) : predicted[i] = <<>>
          /\ fusedLabels' = predicted
          /\ fusedResponse' = buildFusedResponse(fusedConfig, fusedPaths,
                                                 fusedEmbeddings, fusedQuery,
                                                 predicted)
    /\ fusedPc' = "returned"
    /\ UNCHANGED <<fusedConfig, fusedPaths, fusedEmbeddings, fusedQuery, fusedError>>
    /\ UNCHANGED <<jinaVars, filesVars, scorerVars>>

\* the caller has the response or the error: Done -> Ready
FusedSearchSettles ==
    /\ fusedPc \in {"returned", "failed"}
    /\ fusedPc' = "idle"
    /\ fusedConfig' = NoFusedConfig
    /\ fusedPaths' = <<>>
    /\ fusedEmbeddings' = <<>>
    /\ fusedQuery' = NoVector
    /\ fusedLabels' = <<>>
    /\ fusedResponse' = NoResponse
    /\ fusedError' = NoError
    /\ UNCHANGED <<jinaVars, filesVars, scorerVars>>

\* ------------------------------------------------------ the specification

InitJina ==
    /\ model = 0
    /\ processor = 0
    /\ isInitialized = FALSE
    /\ initPc = [c \in InitCalls |-> "idle"]
    /\ initError = [c \in InitCalls |-> NoError]
    /\ searchPc = "idle"
    /\ config = NoConfig
    /\ folder = NoFolder
    /\ imagePaths = <<>>
    /\ imageEmbeddings = <<>>
    /\ textEmbedding = NoVector
    /\ response = NoResponse
    /\ searchError = NoError
    /\ called = "none"

InitFiles ==
    /\ filesDir = NoFolder
    /\ filesResult = NoResult

InitScorer ==
    /\ session = 0
    /\ labels = <<>>
    /\ labelEmbeddings = [l \in LabelSet |-> NoVector]
    /\ scorerInitialized = FALSE
    /\ getTextEmbeddingFn = 0
    /\ scorerPc = [c \in ScorerCalls |-> "idle"]
    /\ scorerIndex = [c \in ScorerCalls |-> 0]
    /\ scorerLabel = [c \in ScorerCalls |-> ""]
    /\ precomputeRuns = 0
    /\ topPc = "idle"
    /\ topK = 0
    /\ topOutcome = "none"
    /\ topLogits = <<>>
    /\ topLabels = <<>>
    /\ topError = NoError
    /\ semPc = "idle"
    /\ semLabels = <<>>
    /\ semQuery = NoVector
    /\ semScore = 0

InitFusion ==
    /\ fusedPc = "idle"
    /\ fusedConfig = NoFusedConfig
    /\ fusedPaths = <<>>
    /\ fusedEmbeddings = <<>>
    /\ fusedQuery = NoVector
    /\ fusedLabels = <<>>
    /\ fusedResponse = NoResponse
    /\ fusedError = NoError

Init == InitJina /\ InitFiles /\ InitScorer /\ InitFusion

Next ==
    \/ \E c \in InitCalls : InitializeCall(c)
    \/ \E c \in InitCalls : ProcessorLoaded(c)
    \/ \E c \in InitCalls : ModelLoaded(c)
    \/ \E c \in InitCalls : LoadFailed(c)
    \/ SearchCall
    \/ SearchEnumerate
    \/ SearchReadImages
    \/ SearchEmbedImages
    \/ SearchEmbedTextAndRank
    \/ SearchMultipleCall
    \/ SelfCheckCall
    \/ CallSettles

Spec == Init /\ [][Next]_vars

NextFiles ==
    \/ FilesCall
    \/ FilesSettles

SpecFiles == Init /\ [][NextFiles]_vars

NextScorer ==
    \/ \E c \in ScorerCalls : ScorerInitializeCall(c)
    \/ \E c \in ScorerCalls : SessionCreated(c)
    \/ \E c \in ScorerCalls : SessionFailed(c)
    \/ \E c \in ScorerCalls : LabelEmbedded(c)
    \/ \E c \in ScorerCalls : LabelEmbeddingFailed(c)
    \/ \E c \in ScorerCalls : PrecomputeDone(c)
    \/ TopLabelsCall
    \/ TopLabelsSettles
    \/ TopLabelsCallerResumes
    \/ SemanticScoreCall
    \/ SemanticScoreCallerResumes

SpecScorer == Init /\ [][NextScorer]_vars

\* initialize, which loads the scorer once, and the searches with fusion
NextFusion ==
    \/ ScorerInitializeCall(1)
    \/ SessionCreated(1)
    \/ SessionFailed(1)
    \/ LabelEmbedded(1)
    \/ LabelEmbeddingFailed(1)
    \/ PrecomputeDone(1)
    \/ FusedSearchCall
    \/ FusedSearchEmbed
    \/ FusedSearchScore
    \/ FusedSearchSettles

SpecFusion == Init /\ [][NextFusion]_vars

\* ---------------------------------------------------------- the properties

\* the score of the i-th enumerated image of the settled search
Score(i) == dot(imageEmbeddings[i], textEmbedding)
\* the enumerated images whose score reaches the threshold
Passing == {i \in 1..Len(imagePaths) : Score(i) >= config.threshold}
PositionOf(path) == CHOOSE i \in 1..Len(imagePaths) : imagePaths[i] = path
Returned == searchPc = "returned"
Results == response.results
InResults(i) == \E k \in 1..Len(Results) : Results[k].imagePath = imagePaths[i]

\* a letter and its lower-case form
FoldsTo(c, l) == c = l \/ \E i \in 1..26 : UpperCase[i] = c /\ LowerCase[i] = l
AllowList == { <<"j","p","g">>, <<"j","p","e","g">>, <<"p","n","g">>,
               <<"b","m","p">>, <<"w","e","b","p">>, <<"g","i","f">> }
\* the name is a non-empty stem, a dot, and an allowed format in any case
HasImageExtension(name) ==
    \E ext \in AllowList :
        /\ Len(name) > Len(ext) + 1
        /\ name[Len(name) - Len(ext)] = "."
        /\ \A k \in 1..Len(ext) : FoldsTo(name[Len(name) - Len(ext) + k], ext[k])
IsImageEntry(e) == e.stat = "file" /\ HasImageExtension(e.name)
ImageEntries(d) == {i \in 1..Len(d.entries) : IsImageEntry(d.entries[i])}

\* C1: every result of search has similarity >= threshold, the threshold
\* included, each similarity being the score of its image; and an image
\* whose score is >= threshold is in the results unless maxResults
\* truncated the list.
C1_ThresholdInclusive ==
    Returned =>
        /\ \A k \in 1..Len(Results) :
              /\ Results[k].similarity >= config.threshold
              /\ \E i \in 1..Len(imagePaths) :
                    /\ imagePaths[i] = Results[k].imagePath
                    /\ Results[k].similarity = Score(i)
        /\ \A i \in Passing :
              InResults(i) \/ config.maxResults < Cardinality(Passing)

\* a search returned an image whose score equals the threshold and left out
\* one whose score is below it
C1_Witness ==
    /\ Returned
    /\ \E i \in Passing : Score(i) = config.threshold /\ InResults(i)
    /\ \E i \in 1..Len(imagePaths) : Score(i) < config.threshold /\ ~InResults(i)

\* C2: in a response of search the result at 0-based position i has rank
\* i+1, and similarity is non-increasing along the list.
C2_RanksAndOrder ==
    Returned =>
        \A k \in 1..Len(Results) :
            /\ Results[k].rank = k
            /\ k < Len(Results) => Results[k].similarity >= Results[k + 1].similarity

\* a search returned three results of falling similarity that were
\* enumerated in the opposite order
C2_Witness ==
    /\ Returned
    /\ Len(Results) = 3
    /\ Results[1].similarity > Results[2].similarity
    /\ Results[2].similarity > Results[3].similarity
    /\ PositionOf(Results[1].imagePath) > PositionOf(Results[2].imagePath)
    /\ PositionOf(Results[2].imagePath) > PositionOf(Results[3].imagePath)

\* C3: two results of equal score appear in the order getImageFiles yielded
\* them.
C3_TiesKeepEnumerationOrder ==
    Returned =>
        \A k, l \in 1..Len(Results) :
            (k < l /\ Results[k].similarity = Results[l].similarity)
                => PositionOf(Results[k].imagePath) < PositionOf(Results[l].imagePath)

\* a search returned two results of equal score behind a higher one that was
\* enumerated last
C3_Witness ==
    /\ Returned
    /\ Len(Results) = 3
    /\ Results[1].similarity > Results[2].similarity
    /\ Results[2].similarity = Results[3].similarity
    /\ PositionOf(Results[1].imagePath) = 3

\* C4: for every integer maxResults, search returns exactly the first
\* maxResults entries of the filtered, sorted sequence: the result length is
\* min(maxResults, number of images with score >= threshold), a cap below
\* zero read as a cap of zero, and no omitted passing image has a score
\* strictly higher than a returned one.
C4_FirstMaxResults ==
    Returned =>
        /\ Len(Results) = Max(0, Min(config.maxResults, Cardinality(Passing)))
        /\ \A i \in Passing :
              ~InResults(i) =>
                  \A k \in 1..Len(Results) : Score(i) <= Results[k].similarity

\* C5: stats.totalImages is the number of image files in the folder whatever
\* the threshold and maxResults, stats.matchingImages is the length of the
\* returned list, and a folder with no image file gives results = [],
\* totalImages = 0, matchingImages = 0.
C5_Stats ==
    (Returned /\ called \in {"search", "searchMultiple"}) =>
        /\ response.stats.totalImages = Cardinality(ImageEntries(folder))
        /\ response.stats.matchingImages = Len(Results)
        /\ ImageEntries(folder) = {} =>
              /\ Results = <<>>
              /\ response.stats.totalImages = 0
              /\ response.stats.matchingImages = 0

\* a search over three image files, two of them passing, returned one
C5_Witness ==
    /\ Returned
    /\ response.stats.totalImages = 3
    /\ Cardinality(Passing) = 2
    /\ response.stats.matchingImages = 1
    /\ Len(folder.entries) > 3

\* the enumeration of d raises a file-system error
EnumerationFails(d) ==
    \/ ~d.exists
    \/ d.readdirError # "none"
    \/ \E i \in 1..Len(d.entries) : d.entries[i].stat \notin {"file", "dir"}

\* the file-system error the enumeration of an existing directory raises:
\* that of the listing, or that of the first entry stat fails on
RaisedIn(d) ==
    IF d.readdirError # "none" THEN ErrnoException(d.readdirError, "scandir")
    ELSE LET bad == {i \in 1..Len(d.entries) : d.entries[i].stat \notin {"file", "dir"}}
             first == CHOOSE i \in bad : \A j \in bad : i <= j
         IN  ErrnoException(d.entries[first].stat, "stat")

\* C6: enumeration fails with 'Directory not found: <dir>' when the path
\* does not exist; every other file-system error, from the listing or from
\* stat on an entry of an existing directory, is propagated unmodified; and
\* the failed search returns no response.
C6_DirectoryNotFoundOnlyWhenMissing ==
    (searchPc \notin {"idle", "getImageFiles"} /\ folder # NoFolder
        /\ EnumerationFails(folder)) =>
        /\ searchPc = "failed"
        /\ response = NoResponse
        /\ searchError = IF folder.exists THEN RaisedIn(folder)
                         ELSE DirectoryNotFound(folder.path)

\* some initialize() call has completed successfully
SomeInitializeSucceeded == \E c \in InitCalls : initPc[c] = "resolved"

\* while no initialize() call has succeeded, a call on the instance has
\* failed with 'Model not initialized', nothing enumerated, nothing inferred
C8_Guarded ==
    /\ isInitialized => SomeInitializeSucceeded
    /\ (searchPc # "idle" /\ ~SomeInitializeSucceeded) =>
          /\ searchPc = "failed"
          /\ searchError = NotInitializedError
          /\ folder = NoFolder
          /\ imagePaths = <<>>
          /\ imageEmbeddings = <<>>
          /\ textEmbedding = NoVector
          /\ response = NoResponse
    /\ \A c \in InitCalls :
          initPc[c] = "rejected" <=> initError[c] = InitializationFailedError

\* an initialize() call that rejects leaves isInitialized as it was, and a
\* rejected call does nothing more
C8_RejectedIsFinal ==
    \A c \in InitCalls :
        /\ (initPc[c] # "rejected" /\ initPc'[c] = "rejected") =>
              /\ isInitialized' = isInitialized
              /\ model' = model
              /\ processor' = processor
        /\ initPc[c] = "rejected" =>
              /\ initPc'[c] = "rejected"
              /\ model' # model => model' # c
              /\ processor' # processor => processor' # c

\* C8: search, searchMultiple and selfCheck proceed only after some
\* initialize() call has completed successfully; before that, also after an
\* initialize whose load failed, they throw 'Model not initialized' with no
\* folder enumerated and no model invoked; a failed initialize rejects with
\* 'Model initialization failed', is not retried and leaves isInitialized
\* false.
C8_GuardedByInitialize == []C8_Guarded /\ [][C8_RejectedIsFinal]_vars

\* a call was refused after an initialize that loaded the processor and then
\* failed on the model
C8_Witness ==
    /\ searchPc = "failed"
    /\ searchError = NotInitializedError
    /\ processor # 0
    /\ \E c \in InitCalls : initPc[c] = "rejected"
    /\ ~SomeInitializeSucceeded

\* the image entries of the listing, in listing order, as paths
RECURSIVE ImagePathsFrom(_, _)
ImagePathsFrom(d, i) ==
    IF i > Len(d.entries) THEN <<>>
    ELSE (IF IsImageEntry(d.entries[i]) THEN <<join(d.path, d.entries[i].name)>>
          ELSE <<>>) \o ImagePathsFrom(d, i + 1)

\* C7: getImageFiles returns exactly the entries of the directory that are
\* regular files with an extension among jpg, jpeg, png, bmp, webp, gif in
\* any case, in listing order, none twice and no sub-directory entered.
C7_ExactlyTheImageFiles ==
    filesDir # NoFolder =>
        /\ filesResult.ok
        /\ filesResult.paths = ImagePathsFrom(filesDir, 1)
        /\ \A i, j \in 1..Len(filesResult.paths) :
              i # j => filesResult.paths[i] # filesResult.paths[j]

\* a listing with an upper-case image file that is returned, and a directory
\* with an image name and a dot file that are not
C7_Witness ==
    /\ filesDir # NoFolder
    /\ filesResult.ok
    /\ Len(filesResult.paths) = 1
    /\ filesResult.paths[1] = join("images", <<"b", ".", "J", "P", "E", "G">>)
    /\ \E i \in 1..Len(filesDir.entries) :
          filesDir.entries[i] = [name |-> <<"a", ".", "j", "p", "g">>, stat |-> "dir"]
    /\ \E i \in 1..Len(filesDir.entries) :
          filesDir.entries[i] = [name |-> <<".", "j", "p", "g">>, stat |-> "file"]

\* C9: the label-embedding table is built once and is immutable after
\* construction: no entry of labelEmbeddings is added or overwritten once
\* the scorer is initialized, and the precompute pass runs at most once.
C9_TableBuiltOnce ==
    [][ /\ scorerInitialized => labelEmbeddings' = labelEmbeddings
        /\ precomputeRuns' <= 1 ]_vars

\* the sequences of n distinct output indices
IndexLists(n) ==
    { idx \in [1..n -> 1..OutputSize] : \A i, j \in 1..n : i # j => idx[i] # idx[j] }

C10_RankedWitness ==
    /\ topPc = "returned"
    /\ topOutcome = "logits"
    /\ topK = 2
    /\ topLogits = <<0, 2, 1>>
    /\ topLabels = <<"beagle", "unknown">>

\* the inner product of two embeddings of the model's dimension
InnerProduct(a, b) == a[1] * b[1] + a[2] * b[2]
\* the positions of a label list whose label has an entry in the table
Found(imageLabels) ==
    { i \in 1..Len(imageLabels) :
        /\ imageLabels[i] \in DOMAIN labelEmbeddings
        /\ labelEmbeddings[imageLabels[i]] # NoVector }
\* the similarity of the label at position i to the query
SimilarityAt(imageLabels, queryEmbedding, i) ==
    InnerProduct(labelEmbeddings[imageLabels[i]], queryEmbedding)
\* the greatest similarity over the labels that have an entry, 0 without one
MaxOverFound(imageLabels, queryEmbedding, score) ==
    IF Found(imageLabels) = {} THEN score = 0
    ELSE /\ \E i \in Found(imageLabels) :
               score = SimilarityAt(imageLabels, queryEmbedding, i)
         /\ \A i \in Found(imageLabels) :
               SimilarityAt(imageLabels, queryEmbedding, i) <= score
\* a step in which a computeSemanticScore call returns
SemanticScoreReturns == semPc = "idle" /\ semPc' = "returned"

C12_NoEntryWitness ==
    /\ semPc = "returned"
    /\ Len(semLabels) > 0
    /\ Found(semLabels) = {}
    /\ semScore = 0

\* the greatest of 0 and the similarities of the labels that have an entry
MaxWithZero(imageLabels, queryEmbedding, score) ==
    /\ score >= 0
    /\ \A i \in Found(imageLabels) :
          SimilarityAt(imageLabels, queryEmbedding, i) <= score
    /\ \/ score = 0
       \/ \E i \in Found(imageLabels) :
             score = SimilarityAt(imageLabels, queryEmbedding, i)
\* some label of the list has no entry in the table
SomeLabelMissing(imageLabels) == Found(imageLabels) # 1..Len(imageLabels)

\* C13: a predicted label with no entry in the label table raises no error
\* and contributes 0 to the maximum: whenever a predicted label is missing
\* from the table, the score is the greatest of 0 and the similarities of
\* the labels that have an entry, so it is at least 0.
C13_MissingLabelContributesZero ==
    [][ (SemanticScoreReturns /\ SomeLabelMissing(semLabels')) =>
            MaxWithZero(semLabels', semQuery', semScore') ]_vars

\* the initialize() calls that have completed a load
Loaded == {c \in InitCalls : initPc[c] = "resolved"}

\* C14: under any interleaving of initialize() calls on one instance, the
\* processor and the model are never reassigned once isInitialized is
\* true, a call that observes the instance as initialized returns without
\* loading, and at most one load completes successfully.
C14_LoadedOnce ==
    [][ /\ isInitialized => (model' = model /\ processor' = processor)
        /\ \A c \in InitCalls :
              /\ (isInitialized /\ initPc[c] = "idle" /\ initPc'[c] # "idle") =>
                    /\ initPc'[c] = "alreadyInitialized"
                    /\ model' = model
                    /\ processor' = processor
              /\ initPc[c] = "alreadyInitialized" =>
                    initPc'[c] = "alreadyInitialized"
        /\ Cardinality(Loaded') <= 1 ]_vars

\* the enumerated image a result of the fused search is for
FusedPositionOf(path) == CHOOSE i \in 1..Len(fusedPaths) : fusedPaths[i] = path
\* fusionWeight clamped to [0,1], in tenths
Clamped(w) == IF w < 0 THEN 0 ELSE IF w > 10 THEN 10 ELSE w
\* the search asked for the scorer
AuxEnabled == fusedConfig.enableAuxScorer
\* the result is fused from the visual score of its image and the
\* label-semantic score of the labels predicted for it
IsFused(r) ==
    LET i == FusedPositionOf(r.imagePath)
        w == Clamped(fusedConfig.fusionWeight)
        visualScore == InnerProduct(fusedEmbeddings[i], fusedQuery)
    IN  \E secondaryScore \in -100..100 :
            /\ MaxOverFound(fusedLabels[i], fusedQuery, secondaryScore)
            /\ r.similarity = (10 - w) * visualScore + w * secondaryScore
            /\ fusedConfig.fusionWeight = 10 => r.similarity = 10 * secondaryScore

C11_WeightOneWitness ==
    /\ fusedPc = "returned"
    /\ AuxEnabled
    /\ fusedConfig.fusionWeight = 10
    /\ \E k \in 1..Len(fusedResponse.results) :
          LET r == fusedResponse.results[k] IN
          /\ r.similarity = 10 * r.auxScore
          /\ r.similarity # 10 * r.clipScore

====
